---- MODULE Spec2Model ----
(***************************************************************************)
(* Model of rye's tool installer (src/rye/src/installer.rs) and of the     *)
(* `run` command (src/rye/src/cli/run.rs).                                 *)
(*                                                                         *)
(* The installer is modelled at the granularity of its filesystem calls:   *)
(* every call that can fail has its failure as a nondeterministic outcome, *)
(* handled the way the code handles it (`?`, `.ok()`, `if let Ok`).        *)
(* Paths are sequences of components, as std::path::Path compares them.    *)
(***************************************************************************)
EXTENDS Integers, Sequences, FiniteSets, TLC

\* ------------------------------------------------------------------ bounds
MaxManifest == 2        \* longest package manifest explored

\* ------------------------------------------------------------- file system
Packages == {"p", "q"}              \* normalized package names
Names       == {"a", "b", "c"}      \* names of shim directory entries
EntryPoints == {"a", "b"}           \* names of the scripts packages install

AppDir  == <<"app">>
ShimDir == AppDir \o <<"shims">>
ToolDir == AppDir \o <<"tools">>

Join(base, rest) == base \o rest

TargetVenvPath(p)    == Join(ToolDir, <<p>>)
TargetVenvBinPath(p) == Join(TargetVenvPath(p), <<"bin">>)

\* Path::strip_prefix: component-wise; Ok(rest) or Err
StripPrefix(path, prefix) ==
    IF Len(prefix) <= Len(path) /\ SubSeq(path, 1, Len(prefix)) = prefix
    THEN [ok |-> TRUE, rest |-> SubSeq(path, Len(prefix) + 1, Len(path))]
    ELSE [ok |-> FALSE, rest |-> <<>>]

\* the files a distribution installed into environment p can report
Files(p) == { Join(TargetVenvBinPath(p), <<n>>) : n \in EntryPoints }
            \cup { Join(TargetVenvBinPath(p), <<"sub", "a">>),
                   Join(TargetVenvPath(p), <<"lib", "mod.py">>) }

RECURSIVE SeqsUpTo(_, _)
SeqsUpTo(S, n) ==
    IF n = 0 THEN { <<>> }
    ELSE LET shorter == SeqsUpTo(S, n - 1)
         IN  shorter \cup { Append(s, x) : s \in shorter, x \in S }

Manifests(p) == SeqsUpTo(Files(p), MaxManifest)

\* shim directory entries
Absent      == [kind |-> "absent",  target |-> <<>>]
RegularFile == [kind |-> "file",    target |-> <<>>]
Symlink(t)  == [kind |-> "symlink", target |-> t]

NoCall == [op |-> "none", pkg |-> "p", force |-> FALSE]

VARIABLES
    envs,       \* packages whose environment directory exists
    shims,      \* shim directory: name -> entry
    pc,         \* position inside the running invocation, "idle" between
    call,       \* the running (or last returned) invocation
    todo,       \* read_dir entries not visited yet
    manifest,   \* manifest read by the running install
    k,          \* index of the next manifest entry to publish
    result,     \* what the last invocation returned
    pre,        \* file system when the invocation was entered
    again,      \* the invocation repeats the one before it, which succeeded
    faulted,    \* a call made by uninstall_helper failed in this invocation
    prior       \* how the invocation before ended, when it was an install of
                \* the same package that failed after creating the environment

toolVars == <<envs, shims, pc, call, todo, manifest, k, result, pre, again,
              faulted, prior>>

\* state of one invocation of `run`
VARIABLES
    list,        \* Args.list
    cmd,         \* Args.cmd: <<>> for None, else the external subcommand
    scripts,     \* the script table of the project: name -> Script
    binFiles,    \* the paths that are existing files
    environ,     \* the process environment
    args,        \* the argument vector being resolved
    short_name,  \* the name kept for the error message
    cargs,       \* the arguments as C strings
    stdout,      \* the lines printed
    rpc,         \* position inside execute
    rresult,     \* what execute returned
    image,       \* the program that replaced the process, <<>> if none
    environ0,    \* the process environment when run was entered
    errno        \* the error execv returned, "none" if it did not fail

runVars == <<list, cmd, scripts, binFiles, environ, args, short_name, cargs,
             stdout, rpc, rresult, image, environ0, errno>>

vars == <<toolVars, runVars>>

ToolInit ==
    /\ envs = {}
    /\ shims \in { f \in [Names -> {Absent, RegularFile}] :
                        \A n \in Names \ EntryPoints : f[n] = RegularFile }
    /\ pc = "idle"
    /\ call = NoCall
    /\ todo = {}
    /\ manifest = <<>>
    /\ k = 1
    /\ result = "none"
    /\ pre = [envs |-> envs, shims |-> shims]
    /\ again = FALSE
    /\ faulted = FALSE
    /\ prior = "other"

Enter(op, p, force) ==
    /\ call' = [op |-> op, pkg |-> p, force |-> force]
    /\ pre' = [envs |-> envs, shims |-> shims]
    /\ again' = (call.op = op /\ call.pkg = p /\ result = "Ok")
    /\ faulted' = FALSE
    /\ prior' = IF /\ call.op = "install" /\ call.pkg = p
                   /\ result \in {"InstallFailed", "SymlinkFailed"}
                THEN result ELSE "other"
    /\ manifest' = <<>>
    /\ k' = 1

Return(r) ==
    /\ pc' = "idle"
    /\ result' = r
    /\ todo' = {}

\* variant: the AlreadyInstalled check is missing
InstallCheck_NoCheck(p, force) ==
    /\ pc = "idle"
    /\ Enter("install", p, force)
    /\ pc' = "helper_rm"
    /\ result' = "none"
    /\ UNCHANGED <<envs, shims, todo>>
    /\ UNCHANGED runVars

\* ---------------------------------------------------------------- install
\* installer.rs 41-47: the AlreadyInstalled check, then into uninstall_helper
InstallCheck(p, force) ==
    /\ pc = "idle"
    /\ Enter("install", p, force)
    /\ IF p \in envs /\ ~force
       THEN /\ Return("AlreadyInstalled")
            /\ UNCHANGED <<envs, shims>>
       ELSE /\ pc' = "helper_rm"
            /\ result' = "none"
            /\ UNCHANGED <<envs, shims, todo>>
    /\ UNCHANGED runVars

\* variant: no early return for a package that is not installed
UninstallCheck_NoEarlyReturn(p) ==
    /\ pc = "idle"
    /\ Enter("uninstall", p, FALSE)
    /\ pc' = "helper_rm"
    /\ result' = "none"
    /\ UNCHANGED <<envs, shims, todo>>
    /\ UNCHANGED runVars

\* ---------------------------------------------------------------- uninstall
\* installer.rs 118-126: not installed is a successful no-op
UninstallCheck(p) ==
    /\ pc = "idle"
    /\ Enter("uninstall", p, FALSE)
    /\ IF p \notin envs
       THEN /\ Return("Ok")
            /\ UNCHANGED <<envs, shims>>
       ELSE /\ pc' = "helper_rm"
            /\ result' = "none"
            /\ UNCHANGED <<envs, shims, todo>>
    /\ UNCHANGED runVars

\* ---------------------------------------------------------- uninstall_helper
\* what the caller makes of an Err from uninstall_helper
HelperErr == IF call.op = "uninstall" THEN "UninstallFailed" ELSE "IoError"

\* installer.rs 137: fs::remove_dir_all(target_venv_path).ok()
HelperRemoveDir(deleted) ==
    /\ pc = "helper_rm"
    /\ envs' = IF deleted THEN envs \ {call.pkg} ELSE envs
    /\ faulted' = (faulted \/ (~deleted /\ call.pkg \in envs))
    /\ pc' = "helper_readdir"
    /\ UNCHANGED <<shims, call, todo, manifest, k, result, pre, again, prior>>
    /\ UNCHANGED runVars

\* installer.rs 139: fs::read_dir(shim_dir)?
HelperReadDir(ok) ==
    /\ pc = "helper_readdir"
    /\ IF ok
       THEN /\ todo' = { n \in Names : shims[n] # Absent }
            /\ pc' = "helper_scan"
            /\ UNCHANGED result
       ELSE Return(HelperErr)
    /\ faulted' = (faulted \/ ~ok)
    /\ UNCHANGED <<envs, shims, call, manifest, k, pre, again, prior>>
    /\ UNCHANGED runVars

\* variant: the scan removes every symlink, whatever its target
HelperScanEntry_AnySymlink(n, io) ==
    /\ pc = "helper_scan"
    /\ n \in todo
    /\ IF io = "error"
       THEN /\ Return(HelperErr)
            /\ UNCHANGED shims
       ELSE /\ todo' = todo \ {n}
            /\ UNCHANGED <<pc, result>>
            /\ IF io = "ok" /\ shims[n].kind = "symlink"
               THEN shims' = [shims EXCEPT ![n] = Absent]
               ELSE UNCHANGED shims
    /\ faulted' = (faulted \/ io # "ok")
    /\ UNCHANGED <<envs, call, manifest, k, pre, again, prior>>
    /\ UNCHANGED runVars

\* installer.rs 139-149: one iteration of the scan
\*   io = "ok"        every call of the iteration succeeds
\*   io = "swallowed" is_symlink cannot stat the entry, or read_link fails
\*   io = "error"     the directory entry or remove_file fails
HelperScanEntry(n, io) ==
    /\ pc = "helper_scan"
    /\ n \in todo
    /\ IF io = "error"
       THEN /\ Return(HelperErr)
            /\ UNCHANGED shims
       ELSE /\ todo' = todo \ {n}
            /\ UNCHANGED <<pc, result>>
            /\ IF /\ io = "ok"
                  /\ shims[n].kind = "symlink"
                  /\ StripPrefix(shims[n].target, TargetVenvPath(call.pkg)).ok
               THEN shims' = [shims EXCEPT ![n] = Absent]
               ELSE UNCHANGED shims
    /\ faulted' = (faulted \/ io # "ok")
    /\ UNCHANGED <<envs, call, manifest, k, pre, again, prior>>
    /\ UNCHANGED runVars

\* installer.rs 151, and the caller's continuation (47-50, 128-133)
HelperDone ==
    /\ pc = "helper_scan"
    /\ todo = {}
    /\ IF call.op = "uninstall"
       THEN Return("Ok")
       ELSE /\ pc' = "fetch"
            /\ UNCHANGED <<result, todo>>
    /\ UNCHANGED <<envs, shims, call, manifest, k, pre, again, faulted, prior>>
    /\ UNCHANGED runVars

\* ------------------------------------------------------- install, continued
\* installer.rs 50: fetch(py_ver, output)?
Fetch(ok) ==
    /\ pc = "fetch"
    /\ IF ok THEN pc' = "create" /\ UNCHANGED <<result, todo>>
             ELSE Return("ProvisionFailed")
    /\ UNCHANGED <<envs, shims, call, manifest, k, pre, again, faulted, prior>>
    /\ UNCHANGED runVars

\* installer.rs 52: create_virtualenv(...)?; a failed creation may leave the
\* directory behind
CreateVirtualenv(ok, dirMade) ==
    /\ pc = "create"
    /\ ok => dirMade
    /\ envs' = IF dirMade THEN envs \cup {call.pkg} ELSE envs
    /\ IF ok THEN pc' = "pip" /\ UNCHANGED <<result, todo>>
             ELSE Return("ProvisionFailed")
    /\ UNCHANGED <<shims, call, manifest, k, pre, again, faulted, prior>>
    /\ UNCHANGED runVars

\* installer.rs 54-72: the package installer subprocess
PipInstall(ok) ==
    /\ pc = "pip"
    /\ IF ok THEN pc' = "manifest" /\ UNCHANGED <<result, todo>>
             ELSE Return("InstallFailed")
    /\ UNCHANGED <<envs, shims, call, manifest, k, pre, again, faulted, prior>>
    /\ UNCHANGED runVars

\* installer.rs 74-85: dump the manifest of the installed distribution
ReadManifest(ok, m) ==
    /\ pc = "manifest"
    /\ m \in Manifests(call.pkg)
    /\ IF ok
       THEN /\ manifest' = m
            /\ pc' = "link"
            /\ UNCHANGED <<result, todo>>
       ELSE /\ Return("ManifestUnreadable")
            /\ UNCHANGED manifest
    /\ UNCHANGED <<envs, shims, call, k, pre, again, faulted, prior>>
    /\ UNCHANGED runVars

\* symlink(2) into the shim directory: the name must be free and its parent
\* must be the shim directory itself
CanSymlink(rest) == Len(rest) = 1 /\ rest[1] \in Names /\ shims[rest[1]] = Absent

\* variant: a symlink that cannot be created is skipped, not reported
PublishShim_SkipFailed(ioOk) ==
    /\ pc = "link"
    /\ k <= Len(manifest)
    /\ LET file == manifest[k]
           sp   == StripPrefix(file, TargetVenvBinPath(call.pkg))
       IN  IF sp.ok /\ ioOk /\ CanSymlink(sp.rest)
           THEN shims' = [shims EXCEPT ![sp.rest[1]] = Symlink(file)]
           ELSE UNCHANGED shims
    /\ k' = k + 1
    /\ UNCHANGED <<pc, result, todo>>
    /\ UNCHANGED <<envs, call, manifest, pre, again, faulted, prior>>
    /\ UNCHANGED runVars

\* variant: the symlink replaces an entry that has its name
PublishShim_Overwrite(ioOk) ==
    /\ pc = "link"
    /\ k <= Len(manifest)
    /\ LET file == manifest[k]
           sp   == StripPrefix(file, TargetVenvBinPath(call.pkg))
       IN  IF ~sp.ok
           THEN /\ k' = k + 1
                /\ UNCHANGED <<shims, pc, result, todo>>
           ELSE IF ioOk /\ Len(sp.rest) = 1 /\ sp.rest[1] \in Names
           THEN /\ shims' = [shims EXCEPT ![sp.rest[1]] = Symlink(file)]
                /\ k' = k + 1
                /\ UNCHANGED <<pc, result, todo>>
           ELSE /\ Return("SymlinkFailed")
                /\ UNCHANGED <<shims, k>>
    /\ UNCHANGED <<envs, call, manifest, pre, again, faulted, prior>>
    /\ UNCHANGED runVars

\* installer.rs 89-98: one iteration of the publication loop
PublishShim(ioOk) ==
    /\ pc = "link"
    /\ k <= Len(manifest)
    /\ LET file == manifest[k]
           sp   == StripPrefix(file, TargetVenvBinPath(call.pkg))
       IN  IF ~sp.ok
           THEN /\ k' = k + 1
                /\ UNCHANGED <<shims, pc, result, todo>>
           ELSE IF ioOk /\ CanSymlink(sp.rest)
           THEN /\ shims' = [shims EXCEPT ![sp.rest[1]] = Symlink(file)]
                /\ k' = k + 1
                /\ UNCHANGED <<pc, result, todo>>
           ELSE /\ Return("SymlinkFailed")
                /\ UNCHANGED <<shims, k>>
    /\ UNCHANGED <<envs, call, manifest, pre, again, faulted, prior>>
    /\ UNCHANGED runVars

\* installer.rs 115
InstallDone ==
    /\ pc = "link"
    /\ k > Len(manifest)
    /\ Return("Ok")
    /\ UNCHANGED <<envs, shims, call, manifest, k, pre, again, faulted, prior>>
    /\ UNCHANGED runVars

Next ==
    \/ \E p \in Packages, force \in BOOLEAN : InstallCheck(p, force)
    \/ \E p \in Packages : UninstallCheck(p)
    \/ \E deleted \in BOOLEAN : HelperRemoveDir(deleted)
    \/ \E ok \in BOOLEAN : HelperReadDir(ok)
    \/ \E n \in Names, io \in {"ok", "swallowed", "error"} : HelperScanEntry(n, io)
    \/ HelperDone
    \/ \E ok \in BOOLEAN : Fetch(ok)
    \/ \E ok \in BOOLEAN, dirMade \in BOOLEAN : CreateVirtualenv(ok, dirMade)
    \/ \E ok \in BOOLEAN : PipInstall(ok)
    \/ \E ok \in BOOLEAN, m \in Manifests(call.pkg) : ReadManifest(ok, m)
    \/ \E ioOk \in BOOLEAN : PublishShim(ioOk)
    \/ InstallDone

\* ===================================================================== run
\* OS strings are sequences of character codes.
chNul         == 0          \* the byte a C string cannot hold
chSpace       == 32
chLParen      == 40
chRParen      == 41
chSlash       == 47         \* path separator
chColon       == 58         \* PATH separator
chInvalid     == 255        \* a byte that is not valid UTF-8
chReplacement == 65533      \* U+FFFD, what to_string_lossy puts for it

MaxScripts == 2         \* most entries of a script table explored
MaxArgs    == 1         \* most trailing arguments explored

sA    == <<97>>             \* "a"
sB    == <<66>>             \* "B"
sAA   == <<97, 97>>         \* "aa"
sX    == <<120>>            \* "x"
sY    == <<121>>            \* "y"
sOne  == <<49>>             \* "1"
sAbsY == <<chSlash, 121>>   \* "/y"
sNul  == <<49, chNul>>      \* "1\0"
sBad  == <<chInvalid>>      \* not UTF-8

None      == [kind |-> "None",     args |-> <<>>]
External  == [kind |-> "External", args |-> <<>>]
Cmd(a)    == [kind |-> "Cmd",      args |-> a]

KeyNames   == {sA, sB, sAA}
ScriptDefs == {External, Cmd(<<>>), Cmd(<<sY, sOne>>), Cmd(<<sA>>),
               Cmd(<<sAbsY>>), Cmd(<<sNul, sY>>)}
Tables     == UNION { [D -> ScriptDefs] :
                        D \in {D \in SUBSET KeyNames : Cardinality(D) <= MaxScripts} }
CmdTokens  == {sA, sB, sY, sBad}
ArgTokens  == {sA, sX}
Commands   == { <<>> } \cup
              { <<c>> \o t : c \in CmdTokens, t \in SeqsUpTo(ArgTokens, MaxArgs) }

\* Path::join: an absolute right-hand side replaces the left-hand side
JoinOs(base, rel) ==
    IF rel # <<>> /\ rel[1] = chSlash THEN rel ELSE base \o <<chSlash>> \o rel

VenvPath == <<chSlash, 118>>                     \* pyproject.venv_path(): "/v"
VenvBin  == JoinOs(VenvPath, <<98, 105, 110>>)   \* pyproject.venv_bin_path()

FileCandidates == {JoinOs(VenvBin, sY), JoinOs(VenvBin, sA)}

Unset    == <<"unset">>
OldPath  == <<chSlash, 117>>                     \* "/u"
OldHome  == <<chSlash, 104>>                     \* "/h"
OldLang  == <<67>>                               \* "C"

\* OsStr::to_string_lossy
ToStringLossy(s) ==
    [i \in 1..Len(s) |-> IF s[i] = chInvalid THEN chReplacement ELSE s[i]]

\* str::to_ascii_lowercase
ToAsciiLowercase(s) ==
    [i \in 1..Len(s) |-> IF s[i] \in 65..90 THEN s[i] + 32 ELSE s[i]]

\* Ord for str: lexicographic on the codes
StrLess(x, y) ==
    \/ Len(x) < Len(y) /\ SubSeq(y, 1, Len(x)) = x
    \/ \E i \in 1..Len(x) :
          /\ i <= Len(y)
          /\ SubSeq(x, 1, i - 1) = SubSeq(y, 1, i - 1)
          /\ x[i] < y[i]

\* the comparator of list_scripts, run.rs 113
ListLess(x, y) == StrLess(ToAsciiLowercase(x), ToAsciiLowercase(y))

\* slice::sort_by is a stable sort: insertion of each element behind the
\* elements that do not compare greater
\* variant: the comparator does not fold case
RECURSIVE InsertSorted_CaseSensitive(_, _)
InsertSorted_CaseSensitive(x, sorted) ==
    IF sorted = <<>> THEN <<x>>
    ELSE IF StrLess(x, Head(sorted)) THEN <<x>> \o sorted
    ELSE <<Head(sorted)>> \o InsertSorted_CaseSensitive(x, Tail(sorted))

RECURSIVE InsertSorted(_, _)
InsertSorted(x, sorted) ==
    IF sorted = <<>> THEN <<x>>
    ELSE IF ListLess(x, Head(sorted)) THEN <<x>> \o sorted
    ELSE <<Head(sorted)>> \o InsertSorted(x, Tail(sorted))

RECURSIVE SortBy(_)
SortBy(names) ==
    IF names = <<>> THEN <<>>
    ELSE InsertSorted(names[Len(names)], SortBy(SubSeq(names, 1, Len(names) - 1)))

\* PyProject::get_script_cmd
GetScriptCmd(name) == IF name \in DOMAIN scripts THEN scripts[name] ELSE None

\* PyProject::list_scripts: the defined names, in any order
ListScriptsOrders ==
    { o \in [1..Cardinality(DOMAIN scripts) -> DOMAIN scripts] :
        \A i, j \in DOMAIN o : i # j => o[i] # o[j] }

\* Display for Script: the literal argv, space separated
RECURSIVE Display(_)
Display(a) ==
    IF a = <<>> THEN <<>>
    ELSE IF Len(a) = 1 THEN a[1]
    ELSE a[1] \o <<chSpace>> \o Display(Tail(a))

\* run.rs 114-120: the line printed for one entry
PrintLine(name, script) ==
    IF script.kind = "External" THEN name
    ELSE name \o <<chSpace, chLParen>> \o Display(script.args) \o <<chRParen>>

\* run.rs 104-122
ListScriptsOutput(order) ==
    LET sorted == SortBy(order)
    IN  [i \in 1..Len(sorted) |-> PrintLine(sorted[i], GetScriptCmd(sorted[i]))]

\* variant: the alias branches keep the command name (skip(1) missing), and
\* the passthrough branch joins only a name that is a file
ResolveArgs_Slip(a) ==
    LET script == GetScriptCmd(ToStringLossy(a[1]))
    IN  IF script.kind = "Cmd" /\ script.args # <<>>
        THEN LET script_target == JoinOs(VenvBin, script.args[1])
             IN  IF script_target \in binFiles
                 THEN <<script_target>> \o Tail(script.args) \o a
                 ELSE script.args \o a
        ELSE IF script.kind = "External" /\ JoinOs(VenvBin, a[1]) \in binFiles
        THEN [a EXCEPT ![1] = JoinOs(VenvBin, a[1])]
        ELSE a

\* run.rs 50-72: the argument vector after script resolution
ResolveArgs(a) ==
    LET script == GetScriptCmd(ToStringLossy(a[1]))
    IN  IF script.kind = "Cmd" /\ script.args # <<>>
        THEN LET script_target == JoinOs(VenvBin, script.args[1])
             IN  IF script_target \in binFiles
                 THEN <<script_target>> \o Tail(script.args) \o Tail(a)
                 ELSE script.args \o Tail(a)
        ELSE IF script.kind = "External"
        THEN [a EXCEPT ![1] = JoinOs(VenvBin, a[1])]
        ELSE a

\* CString::new(..).ok(): None when the bytes hold a NUL
IsCString(x) == \A i \in 1..Len(x) : x[i] # chNul

RunStopped ==
    /\ list = FALSE
    /\ cmd = <<>>
    /\ scripts = <<>>
    /\ binFiles = {}
    /\ environ = [PATH |-> Unset, PYTHONHOME |-> Unset, VIRTUAL_ENV |-> Unset,
                  LANG |-> Unset]
    /\ environ0 = environ
    /\ errno = "none"
    /\ args = <<>>
    /\ short_name = <<>>
    /\ cargs = <<>>
    /\ stdout = <<>>
    /\ rpc = "off"
    /\ rresult = "none"
    /\ image = <<>>

RunInit ==
    /\ list \in BOOLEAN
    /\ cmd \in Commands
    /\ scripts \in Tables
    /\ binFiles \in SUBSET FileCandidates
    /\ environ \in [PATH : {Unset, OldPath}, PYTHONHOME : {Unset, OldHome},
                    VIRTUAL_ENV : {Unset}, LANG : {OldLang}]
    /\ environ0 = environ
    /\ errno = "none"
    /\ args = <<>>
    /\ short_name = <<>>
    /\ cargs = <<>>
    /\ stdout = <<>>
    /\ rpc = "start"
    /\ rresult = "none"
    /\ image = <<>>

\* variant: the list flag is ignored when a command is given
ExecuteStart_ListIgnored(order) ==
    /\ rpc = "start"
    /\ order \in ListScriptsOrders
    /\ IF cmd = <<>>
       THEN /\ stdout' = ListScriptsOutput(order)
            /\ rresult' = "Ok"
            /\ rpc' = "returned"
            /\ UNCHANGED <<args, short_name>>
       ELSE /\ args' = cmd
            /\ short_name' = ToStringLossy(cmd[1])
            /\ rpc' = "resolve"
            /\ UNCHANGED <<stdout, rresult>>
    /\ UNCHANGED <<list, cmd, scripts, binFiles, environ, cargs, image,
                   environ0, errno>>
    /\ UNCHANGED toolVars

\* run.rs 40-48: list, or take the external subcommand
ExecuteStart(order) ==
    /\ rpc = "start"
    /\ order \in ListScriptsOrders
    /\ IF list \/ cmd = <<>>
       THEN /\ stdout' = ListScriptsOutput(order)
            /\ rresult' = "Ok"
            /\ rpc' = "returned"
            /\ UNCHANGED <<args, short_name>>
       ELSE /\ args' = cmd
            /\ short_name' = ToStringLossy(cmd[1])
            /\ rpc' = "resolve"
            /\ UNCHANGED <<stdout, rresult>>
    /\ UNCHANGED <<list, cmd, scripts, binFiles, environ, cargs, image,
                   environ0, errno>>
    /\ UNCHANGED toolVars

\* variant: a name the table does not resolve is joined with the bin
\* directory as a passthrough is
Resolve_JoinsName ==
    /\ rpc = "resolve"
    /\ args' = IF ResolveArgs(args) = args
               THEN [args EXCEPT ![1] = JoinOs(VenvBin, args[1])]
               ELSE ResolveArgs(args)
    /\ rpc' = "cstrings"
    /\ UNCHANGED <<list, cmd, scripts, binFiles, environ, short_name, cargs,
                   stdout, rresult, image, environ0, errno>>
    /\ UNCHANGED toolVars

\* run.rs 50-72
Resolve ==
    /\ rpc = "resolve"
    /\ args' = ResolveArgs(args)
    /\ rpc' = "cstrings"
    /\ UNCHANGED <<list, cmd, scripts, binFiles, environ, short_name, cargs,
                   stdout, rresult, image, environ0, errno>>
    /\ UNCHANGED toolVars

\* run.rs 74-78: arguments with a NUL are dropped; args[0] of an empty
\* vector panics
ToCStrings ==
    /\ rpc = "cstrings"
    /\ cargs' = SelectSeq(args, IsCString)
    /\ IF cargs' = <<>>
       THEN rpc' = "returned" /\ rresult' = "panic"
       ELSE rpc' = "overlay" /\ UNCHANGED rresult
    /\ UNCHANGED <<list, cmd, scripts, binFiles, environ, args, short_name,
                   stdout, image, environ0, errno>>
    /\ UNCHANGED toolVars

\* variant: the bin directory is put after the previous PATH and PYTHONHOME
\* is kept
Overlay_Appends(env) ==
    [env EXCEPT !.VIRTUAL_ENV = VenvPath,
                !.PATH        = IF env.PATH # Unset
                                THEN env.PATH \o <<chColon>> \o VenvBin
                                ELSE VenvBin]

\* run.rs 82-91
Overlay(env) ==
    [env EXCEPT !.VIRTUAL_ENV = VenvPath,
                !.PATH        = IF env.PATH # Unset
                                THEN VenvBin \o <<chColon>> \o env.PATH
                                ELSE VenvBin,
                !.PYTHONHOME  = Unset]

ApplyOverlay ==
    /\ rpc = "overlay"
    /\ environ' = Overlay(environ)
    /\ rpc' = "execv"
    /\ UNCHANGED <<list, cmd, scripts, binFiles, args, short_name, cargs,
                   stdout, rresult, image, environ0, errno>>
    /\ UNCHANGED toolVars

\* variant: the error names the path that was executed
Execv_ReportsPath(outcome) ==
    /\ rpc = "execv"
    /\ LET path == cargs[1]
       IN  /\ (outcome = "replaced") =>
                 ~(path \in FileCandidates /\ path \notin binFiles)
           /\ IF outcome = "replaced"
              THEN /\ image' = [path |-> path, argv |-> cargs]
                   /\ rpc' = "replaced"
                   /\ UNCHANGED <<rresult, errno>>
              ELSE /\ errno' = outcome
                   /\ rresult' = IF outcome = "ENOENT"
                                 THEN <<"ScriptNotFound", ToStringLossy(path)>>
                                 ELSE <<"Os", outcome>>
                   /\ rpc' = "returned"
                   /\ UNCHANGED image
    /\ UNCHANGED <<list, cmd, scripts, binFiles, environ, args, short_name,
                   cargs, stdout, environ0>>
    /\ UNCHANGED toolVars

\* run.rs 93-101: execv(path, args) with path = args[0]; a path known not to
\* be a file cannot be executed
Execv(outcome) ==
    /\ rpc = "execv"
    /\ LET path == cargs[1]
       IN  /\ (outcome = "replaced") =>
                 ~(path \in FileCandidates /\ path \notin binFiles)
           /\ IF outcome = "replaced"
              THEN /\ image' = [path |-> path, argv |-> cargs]
                   /\ rpc' = "replaced"
                   /\ UNCHANGED <<rresult, errno>>
              ELSE /\ errno' = outcome
                   /\ rresult' = IF outcome = "ENOENT"
                                 THEN <<"ScriptNotFound", short_name>>
                                 ELSE <<"Os", outcome>>
                   /\ rpc' = "returned"
                   /\ UNCHANGED image
    /\ UNCHANGED <<list, cmd, scripts, binFiles, environ, args, short_name,
                   cargs, stdout, environ0>>
    /\ UNCHANGED toolVars

NextRun ==
    \/ \E order \in ListScriptsOrders : ExecuteStart(order)
    \/ Resolve
    \/ ToCStrings
    \/ ApplyOverlay
    \/ \E outcome \in {"replaced", "ENOENT", "EACCES"} : Execv(outcome)

\* ---------------------------------------------------------- specifications
Init == ToolInit /\ RunStopped

Spec == Init /\ [][Next]_vars

ToolStopped ==
    /\ envs = {}
    /\ shims = [n \in Names |-> Absent]
    /\ pc = "off"
    /\ call = NoCall
    /\ todo = {}
    /\ manifest = <<>>
    /\ k = 1
    /\ result = "none"
    /\ pre = [envs |-> envs, shims |-> shims]
    /\ again = FALSE
    /\ faulted = FALSE
    /\ prior = "other"

InitRun == RunInit /\ ToolStopped

SpecRun == InitRun /\ [][NextRun]_vars

\* ------------------------------------------------------------ vocabulary
\* the entry is a symlink whose target lies under path
PointsUnder(entry, path) ==
    entry.kind = "symlink" /\ StripPrefix(entry.target, path).ok

HelperPcs == {"helper_rm", "helper_readdir", "helper_scan"}

Returned(op) == pc = "idle" /\ call.op = op

\* names of the manifest entries under the bin directory of p
BinEntries(m, p) ==
    { i \in 1..Len(m) : StripPrefix(m[i], TargetVenvBinPath(p)).ok }

\* ------------------------------------------------------------------ claims

\* C1: outside the uninstall step, and in particular whenever an invocation
\* has returned (with success or with an error), every symlink of the shim
\* directory points under the bin directory of an environment that exists.
C1_ShimInvariant ==
    pc \notin HelperPcs =>
        \A n \in Names :
            shims[n].kind = "symlink" =>
                \E p \in envs : PointsUnder(shims[n], TargetVenvBinPath(p))

\* C2: when install returns success, every manifest entry under the bin
\* directory of the new environment has a shim named by its path relative to
\* that directory, whose target is exactly the entry.
C2_InstalledEntriesHaveShims ==
    (Returned("install") /\ result = "Ok") =>
        \A i \in BinEntries(manifest, call.pkg) :
            LET rest == StripPrefix(manifest[i], TargetVenvBinPath(call.pkg)).rest
            IN  /\ Len(rest) = 1
                /\ rest[1] \in Names
                /\ shims[rest[1]] = Symlink(manifest[i])

C2_Witness ==
    /\ Returned("install") /\ result = "Ok"
    /\ Cardinality(BinEntries(manifest, call.pkg)) = 2
    /\ \E n \in Names : PointsUnder(shims[n], TargetVenvPath(call.pkg))

\* C3: when uninstall of an installed package returns success, its
\* environment directory is gone and no shim points under its path.
C3_UninstallRemovesAll ==
    (Returned("uninstall") /\ result = "Ok" /\ call.pkg \in pre.envs) =>
        /\ call.pkg \notin envs
        /\ \A n \in Names : ~PointsUnder(shims[n], TargetVenvPath(call.pkg))

\* C4: uninstall(p) leaves alone every shim directory entry that was not a
\* symlink under p's environment path, and every other environment.
C4_UninstallFrame ==
    call.op = "uninstall" =>
        /\ \A n \in Names :
              ~PointsUnder(pre.shims[n], TargetVenvPath(call.pkg))
                  => shims[n] = pre.shims[n]
        /\ envs \ {call.pkg} = pre.envs \ {call.pkg}

C4_Witness ==
    /\ Returned("uninstall") /\ result = "Ok"
    /\ call.pkg \in pre.envs
    /\ \E n \in Names : /\ PointsUnder(pre.shims[n], TargetVenvPath(call.pkg))
                        /\ shims[n] = Absent
    /\ \E n \in Names, q \in Packages \ {call.pkg} :
            /\ q \in envs
            /\ PointsUnder(shims[n], TargetVenvPath(q))
    /\ \E n \in Names : shims[n] = RegularFile

\* C5: uninstall of a package whose environment directory does not exist
\* returns success and changes neither the environments nor the shim
\* directory, also when it repeats an uninstall of the same package.
C5_UninstallAbsentIsNoop ==
    (call.op = "uninstall" /\ call.pkg \notin pre.envs) =>
        /\ pc = "idle"
        /\ result = "Ok"
        /\ envs = pre.envs
        /\ shims = pre.shims

C5_Witness ==
    /\ Returned("uninstall") /\ call.pkg \notin pre.envs
    /\ again
    /\ result = "Ok"
    /\ \E n \in Names : PointsUnder(shims[n], TargetVenvPath(call.pkg))

\* C6: install without force of a package whose environment exists fails
\* with AlreadyInstalled before any step that changes the file system.
C6_AlreadyInstalled ==
    (call.op = "install" /\ ~call.force /\ call.pkg \in pre.envs) =>
        /\ pc = "idle"
        /\ result = "AlreadyInstalled"
        /\ envs = pre.envs
        /\ shims = pre.shims

C6_Witness ==
    /\ Returned("install") /\ ~call.force /\ call.pkg \in pre.envs
    /\ result = "AlreadyInstalled"
    /\ \E n \in Names : PointsUnder(shims[n], TargetVenvPath(call.pkg))

\* C7: in a forced install over an existing package the old environment and
\* every shim into it are gone when the new environment is created, and
\* after success the shims under the environment are exactly the bin
\* entries of the new manifest.
C7_ForceReplaces ==
    (call.op = "install" /\ call.force /\ call.pkg \in pre.envs) =>
        /\ pc = "create" =>
              /\ call.pkg \notin envs
              /\ \A n \in Names :
                    ~PointsUnder(shims[n], TargetVenvPath(call.pkg))
        /\ (pc = "idle" /\ result = "Ok") =>
              \A n \in Names :
                  PointsUnder(shims[n], TargetVenvPath(call.pkg)) <=>
                      \E i \in BinEntries(manifest, call.pkg) :
                          manifest[i] = Join(TargetVenvBinPath(call.pkg), <<n>>)

\* C14: uninstall of an installed package returns success or UninstallFailed,
\* and when a call it made (deleting the environment tree, reading the shim
\* directory, examining or removing an entry) failed it returns
\* UninstallFailed.
C14_UninstallFailuresSurface ==
    (Returned("uninstall") /\ call.pkg \in pre.envs) =>
        /\ result \in {"Ok", "UninstallFailed"}
        /\ faulted => result = "UninstallFailed"

\* C15: when install fails with InstallFailed the new environment directory
\* exists and no entry of the shim directory has become a symlink; the next
\* install of the package without force fails with AlreadyInstalled; the next
\* install of it with force has removed that environment when it creates the
\* new one.
C15_FailedInstallLeavesEnvironment ==
    /\ (Returned("install") /\ result = "InstallFailed") =>
          /\ call.pkg \in envs
          /\ \A n \in Names :
                shims[n].kind = "symlink" => shims[n] = pre.shims[n]
    /\ (call.op = "install" /\ prior = "InstallFailed" /\ ~call.force) =>
          (pc = "idle" /\ result = "AlreadyInstalled")
    /\ (call.op = "install" /\ prior = "InstallFailed" /\ call.force
          /\ pc = "create") => call.pkg \notin envs

C19_NoRollback ==
    /\ (Returned("install") /\ result = "SymlinkFailed") =>
          /\ call.pkg \in envs
          /\ \A i \in BinEntries(manifest, call.pkg) :
                i < k =>
                    \E n \in Names :
                        /\ manifest[i] = Join(TargetVenvBinPath(call.pkg), <<n>>)
                        /\ shims[n] = Symlink(manifest[i])
    /\ (Returned("uninstall") /\ prior = "SymlinkFailed" /\ result = "Ok") =>
          \A n \in Names : ~PointsUnder(shims[n], TargetVenvPath(call.pkg))

\* C20: when an install creates the environment, forced or not, no symlink of
\* the shim directory points under the environment path.
C20_PrunedBeforeCreate ==
    (call.op = "install" /\ pc = "create") =>
        \A n \in Names : ~PointsUnder(shims[n], TargetVenvPath(call.pkg))

\* --------------------------------------------------------- claims about run
Resolved == rpc \in {"cstrings", "overlay", "execv", "replaced"}
            \/ (rpc = "returned" /\ ~(list \/ cmd = <<>>))

Listed == rpc = "returned" /\ (list \/ cmd = <<>>)

\* the script the table gives for the command issued
IssuedScript == GetScriptCmd(ToStringLossy(cmd[1]))

\* the final argv the resolution rule for a non-empty alias prescribes,
\* bin/t0 being the path join of the bin directory and t0
AliasArgv ==
    LET t == IssuedScript.args
    IN  IF JoinOs(VenvBin, t[1]) \in binFiles
        THEN <<JoinOs(VenvBin, t[1])>> \o Tail(t) \o Tail(cmd)
        ELSE t \o Tail(cmd)

C9_PassthroughArgv ==
    (Resolved /\ IssuedScript.kind = "External") =>
        args = <<JoinOs(VenvBin, cmd[1])>> \o Tail(cmd)

C9_Witness ==
    /\ Resolved
    /\ IssuedScript.kind = "External"
    /\ JoinOs(VenvBin, cmd[1]) \notin binFiles
    /\ Len(cmd) = 2
    /\ args = <<JoinOs(VenvBin, cmd[1]), cmd[2]>>

\* C10: listing prints every defined name exactly once, in ascending order
\* of the lower-cased name, a passthrough as the bare name and an alias as
\* `name (literal argv)`.
C10_ListingSorted ==
    Listed =>
        \E o \in ListScriptsOrders :
            /\ Len(stdout) = Len(o)
            /\ \A i \in 1..Len(o) :
                  stdout[i] = IF scripts[o[i]].kind = "External"
                              THEN o[i]
                              ELSE o[i] \o <<chSpace, chLParen>>
                                        \o Display(scripts[o[i]].args)
                                        \o <<chRParen>>
            /\ \A i, j \in 1..Len(o) :
                  i < j => ~StrLess(ToAsciiLowercase(o[j]), ToAsciiLowercase(o[i]))

C10_Witness ==
    /\ Listed
    /\ DOMAIN scripts = {sA, sB}
    /\ scripts[sB] = External
    /\ scripts[sA] = Cmd(<<sY, sOne>>)
    /\ stdout = << sA \o <<chSpace, chLParen>> \o sY \o <<chSpace>> \o sOne
                      \o <<chRParen>>,
                   sB >>

\* C11: when the process is replaced, the program executed is the first
\* element of the resolved final argv and the argument vector it receives is
\* the resolved final argv, in order, without the arguments that have no
\* native representation.
C11_ReplacedByFirstOfArgv ==
    rpc = "replaced" =>
        /\ image.path = args[1]
        /\ image.argv = SelectSeq(args, IsCString)

\* C12: script resolution leaves the environment as run found it, and from
\* the overlay to the replacement it is the start environment with
\* VIRTUAL_ENV set to the environment root, PATH set to the bin directory
\* followed by ":" and the previous PATH (the bin directory alone when PATH
\* was unset), PYTHONHOME absent and every other variable unchanged.
C12_EnvironmentOverlay ==
    /\ rpc \in {"start", "resolve", "cstrings", "overlay"} => environ = environ0
    /\ rpc \in {"execv", "replaced"} =>
          /\ DOMAIN environ = DOMAIN environ0
          /\ environ.VIRTUAL_ENV = VenvPath
          /\ environ.PATH = IF environ0.PATH = Unset
                            THEN VenvBin
                            ELSE VenvBin \o <<chColon>> \o environ0.PATH
          /\ environ.PYTHONHOME = Unset
          /\ environ.LANG = environ0.LANG

C12_Witness ==
    /\ rpc = "replaced"
    /\ environ0.PATH = OldPath
    /\ environ0.PYTHONHOME = OldHome
    /\ environ.PATH = VenvBin \o <<chColon>> \o OldPath
    /\ environ.LANG = OldLang

\* C13 (as stated): when execv fails with ENOENT run fails with ScriptNotFound
\* carrying the command name exactly as issued; every other failure is
\* returned as it is; in both cases run returns an error.
C13_ScriptNotFoundCarriesIssuedName ==
    (rpc = "returned" /\ errno # "none") =>
        /\ rresult # "Ok"
        /\ errno = "ENOENT" => rresult = <<"ScriptNotFound", cmd[1]>>
        /\ errno # "ENOENT" => rresult = <<"Os", errno>>

\* C13 (amended): when execv fails with ENOENT run fails with ScriptNotFound
\* carrying the lossy text of the command name issued (the name itself when
\* it is valid UTF-8), never the resolved path or the alias target; every
\* other failure is returned as it is; in both cases run returns an error.
C13_ScriptNotFoundCarriesLossyName ==
    (rpc = "returned" /\ errno # "none") =>
        /\ rresult # "Ok"
        /\ errno = "ENOENT" =>
              rresult = <<"ScriptNotFound", ToStringLossy(cmd[1])>>
        /\ errno # "ENOENT" => rresult = <<"Os", errno>>

C13_Witness ==
    /\ rpc = "returned"
    /\ errno = "ENOENT"
    /\ IssuedScript = Cmd(<<sY, sOne>>)
    /\ JoinOs(VenvBin, sY) \notin binFiles
    /\ cargs[1] = sY
    /\ rresult = <<"ScriptNotFound", cmd[1]>>

\* C16: for a command the table does not define, or defines as an alias with
\* an empty literal sequence, the final argv is [c, a1.., am] unchanged; c is
\* not joined with the bin directory.
C16_VerbatimArgv ==
    (Resolved /\ (IssuedScript = None \/ IssuedScript = Cmd(<<>>))) =>
        args = cmd

C16_Witness ==
    /\ Resolved
    /\ IssuedScript = Cmd(<<>>)
    /\ JoinOs(VenvBin, cmd[1]) \in binFiles
    /\ Len(cmd) = 2
    /\ args = cmd

\* C17: with the list flag set (a command and arguments notwithstanding) or
\* with no command, run only lists the scripts and returns success: nothing
\* is resolved, the environment stays as it was and the process is never
\* replaced.
C17_ListingWins ==
    (list \/ cmd = <<>>) =>
        /\ rpc \in {"start", "returned"}
        /\ rpc = "returned" => rresult = "Ok"
        /\ args = <<>> /\ short_name = <<>> /\ cargs = <<>>
        /\ environ = environ0
        /\ image = <<>> /\ errno = "none"

C17_Witness ==
    /\ Listed
    /\ list
    /\ Len(cmd) = 2
    /\ IssuedScript.kind = "Cmd"
    /\ environ0.PYTHONHOME = OldHome
    /\ stdout # <<>>

TypeOK ==
    /\ envs \subseteq Packages
    /\ pc \in {"off", "idle", "helper_rm", "helper_readdir", "helper_scan", "fetch",
               "create", "pip", "manifest", "link"}
    /\ todo \subseteq Names

====
